---- MODULE Spec2Model ----
(***************************************************************************)
(* Model of the AI Messenger Agent backend (main.py, models.py).           *)
(*                                                                         *)
(* Two specifications share the module:                                    *)
(*   Spec       the three HTTP endpoints running concurrently on one event *)
(*              loop over the in-memory user_profiles_db;                  *)
(*   SpecParse  the completion parser of generate_responses_endpoint run   *)
(*              line by line over every bounded completion text.           *)
(*                                                                         *)
(* Identifiers, messages, boundary statements and error texts are TLA+     *)
(* strings.  A completion text is a sequence of one-character strings so   *)
(* that strip() and split() can be computed character by character.        *)
(***************************************************************************)
EXTENDS Integers, Sequences, FiniteSets, TLC

\* ------------------------------------------------------------------ bounds
\* Number of requests the event loop holds at the same time.
MaxInFlight == 2
\* Longest completion text explored by SpecParse.
MaxLen == 7

\* ------------------------------------------------------- models.py: schema
LevelLiteral == {"low", "medium", "high", "very_high"}

PersonalityFields ==
  {"openness", "conscientiousness", "extraversion", "agreeableness", "neuroticism"}

PersonalityDefaults ==
  [openness |-> "medium", conscientiousness |-> "medium", extraversion |-> "medium",
   agreeableness |-> "medium", neuroticism |-> "medium"]

StyleLiterals ==
  [formality_preference |-> {"formal", "semi_formal", "casual", "chatty"},
   conciseness_preference |-> {"concise", "verbose"},
   humor_level |-> {"none", "low", "medium", "high"},
   empathy_level |-> {"low", "medium", "high", "very_high"},
   flirty_level |-> {"none", "low", "medium", "high"}]

StyleDefaults ==
  [formality_preference |-> "casual", conciseness_preference |-> "concise",
   humor_level |-> "medium", empathy_level |-> "medium", flirty_level |-> "none"]

StyleFields == DOMAIN StyleDefaults

ContextLiteral == {"professional", "casual", "personal", "dating", "group_chat", "other"}

ToneLiteral ==
  {"professional", "formal", "semi_formal", "chatty", "flirty", "funny",
   "empathetic", "direct", "diplomatic", "concise"}

\* Personality(**body): unknown keys are ignored, missing keys take the default.
ValidPersonality(b) ==
  \A f \in PersonalityFields \cap DOMAIN b : b[f] \in LevelLiteral

ParsePersonality(b) ==
  [f \in PersonalityFields |-> IF f \in DOMAIN b THEN b[f] ELSE PersonalityDefaults[f]]

ValidCommunicationStyle(b) ==
  \A f \in StyleFields \cap DOMAIN b : b[f] \in StyleLiterals[f]

ParseCommunicationStyle(b) ==
  [f \in StyleFields |-> IF f \in DOMAIN b THEN b[f] ELSE StyleDefaults[f]]

\* UserProfile: id, personality and communication_style are required (Field(...)),
\* values_boundaries has default_factory=list.
ValidUserProfile(b) ==
  /\ {"id", "personality", "communication_style"} \subseteq DOMAIN b
  /\ ValidPersonality(b.personality)
  /\ ValidCommunicationStyle(b.communication_style)

ParseUserProfile(b) ==
  [id |-> b.id,
   personality |-> ParsePersonality(b.personality),
   communication_style |-> ParseCommunicationStyle(b.communication_style),
   values_boundaries |-> IF "values_boundaries" \in DOMAIN b THEN b.values_boundaries ELSE <<>>]

\* GenerateResponseRequest: user_id, incoming_message and desired_tones are
\* required; desired_tones is List[Literal[...]] with no length constraint.
ValidGenerateResponseRequest(b) ==
  /\ {"user_id", "incoming_message", "desired_tones"} \subseteq DOMAIN b
  /\ ("conversation_context_type" \in DOMAIN b => b.conversation_context_type \in ContextLiteral)
  /\ \A i \in 1..Len(b.desired_tones) : b.desired_tones[i] \in ToneLiteral

ParseGenerateResponseRequest(b) ==
  [user_id |-> b.user_id,
   incoming_message |-> b.incoming_message,
   conversation_context_type |->
     IF "conversation_context_type" \in DOMAIN b THEN b.conversation_context_type ELSE "casual",
   desired_tones |-> b.desired_tones]

\* ------------------------------------------------ python str / dict helpers
\* Characters str.strip() removes, restricted to the alphabet of the model.
Whitespace == {" ", "\n"}

RECURSIVE LStrip(_)
LStrip(s) == IF s # <<>> /\ Head(s) \in Whitespace THEN LStrip(Tail(s)) ELSE s

RECURSIVE RStrip(_)
RStrip(s) ==
  IF s # <<>> /\ s[Len(s)] \in Whitespace THEN RStrip(SubSeq(s, 1, Len(s) - 1)) ELSE s

\* str.strip()
Strip(s) == RStrip(LStrip(s))

\* sep in s
Contains(s, sep) == \E i \in 1..Len(s) : s[i] = sep

\* s.index(sep), for a string that contains sep
Find(s, sep) == CHOOSE i \in 1..Len(s) : s[i] = sep /\ \A j \in 1..(i - 1) : s[j] # sep

\* s.split(sep)
RECURSIVE Split(_, _)
Split(s, sep) ==
  IF ~Contains(s, sep) THEN <<s>>
  ELSE LET i == Find(s, sep)
       IN  <<SubSeq(s, 1, i - 1)>> \o Split(SubSeq(s, i + 1, Len(s)), sep)

\* s.split(sep, 1)
SplitOnce(s, sep) ==
  IF ~Contains(s, sep) THEN <<s>>
  ELSE LET i == Find(s, sep)
       IN  <<SubSeq(s, 1, i - 1), SubSeq(s, i + 1, Len(s))>>

\* Variant: the pieces are trimmed but the empty ones are kept.
RECURSIVE StripNonEmpty_KeepEmpty(_)
StripNonEmpty_KeepEmpty(parts) ==
  IF parts = <<>> THEN <<>>
  ELSE <<Strip(Head(parts))>> \o StripNonEmpty_KeepEmpty(Tail(parts))

\* [opt.strip() for opt in parts if opt.strip()]
RECURSIVE StripNonEmpty(_)
StripNonEmpty(parts) ==
  IF parts = <<>> THEN <<>>
  ELSE IF Strip(Head(parts)) # <<>>
       THEN <<Strip(Head(parts))>> \o StripNonEmpty(Tail(parts))
       ELSE StripNonEmpty(Tail(parts))

\* {}
EmptyDict == [k \in {} |-> <<>>]

\* d[k] = v
DictSet(d, k, v) == [x \in (DOMAIN d) \cup {k} |-> IF x = k THEN v ELSE d[x]]

\* ", ".join(items)
RECURSIVE JoinComma(_)
JoinComma(items) ==
  IF items = <<>> THEN ""
  ELSE IF Len(items) = 1 THEN Head(items)
       ELSE Head(items) \o ", " \o JoinComma(Tail(items))

\* ------------------------------------------- main.py 125-134: the parser
\* `tone, options_str = line.split(':', 1)` raises ValueError unless the split
\* yields exactly two pieces.
UnpackRaises(line) == Contains(line, ":") /\ Len(SplitOnce(line, ":")) # 2

\* Variant: the options of a label seen before are extended, not replaced.
ParseLine_Append(d, line) ==
  IF Contains(line, ":")
  THEN LET parts   == SplitOnce(line, ":")
           tone    == Strip(parts[1])
           options == StripNonEmpty(Split(parts[2], "|"))
       IN  IF options # <<>>
           THEN DictSet(d, tone, IF tone \in DOMAIN d THEN d[tone] \o options ELSE options)
           ELSE d
  ELSE d

\* Body of the for loop for one line that does not raise.
ParseLine(d, line) ==
  IF Contains(line, ":")
  THEN LET parts   == SplitOnce(line, ":")
           tone    == parts[1]
           options == StripNonEmpty(Split(parts[2], "|"))
       IN  IF options # <<>> THEN DictSet(d, Strip(tone), options) ELSE d
  ELSE d

RECURSIVE ParseLines(_, _)
ParseLines(d, ls) ==
  IF ls = <<>> THEN d ELSE ParseLines(ParseLine(d, Head(ls)), Tail(ls))

\* response_text.strip().split('\n')
SplitLines(t) == Split(Strip(t), "\n")

ParseRaises(t) == \E i \in 1..Len(SplitLines(t)) : UnpackRaises(SplitLines(t)[i])

ParseCompletion(t) == ParseLines(EmptyDict, SplitLines(t))

\* ---------------------------------------------------------------- inputs
UserIds == {"u1", "u2"}

\* JSON bodies posted to /user_profile.  The last one lacks the required id.
ProfileBodies ==
  { [id |-> "u1",
     personality |-> [openness |-> "high"],
     communication_style |-> [humor_level |-> "high"],
     values_boundaries |-> <<"no profanity">>],
    [id |-> "u1",
     personality |-> [openness |-> "low", neuroticism |-> "low"],
     communication_style |-> [formality_preference |-> "formal"]],
    [id |-> "u2",
     personality |-> [extraversion |-> "very_high"],
     communication_style |-> [flirty_level |-> "low"],
     values_boundaries |-> <<>>],
    [personality |-> [openness |-> "high"],
     communication_style |-> [humor_level |-> "high"]] }

\* JSON bodies posted to /generate_responses.  The last one names a tone
\* outside the vocabulary.
GenerateBodies ==
  { [user_id |-> "u1", incoming_message |-> "hi",
     conversation_context_type |-> "dating", desired_tones |-> <<"funny", "formal">>],
    [user_id |-> "u1", incoming_message |-> "hi", desired_tones |-> <<>>],
    [user_id |-> "u2", incoming_message |-> "yo", desired_tones |-> <<"flirty">>],
    [user_id |-> "u2", incoming_message |-> "yo", desired_tones |-> <<"angry">>] }

\* Texts the provider may return.
Completions ==
  { <<"f", ":", "a", "|", " ", "b">>,
    <<"n", "o", "p", "e">> }

\* str(e) of the exceptions the provider call may raise.
ProviderErrors == {"timeout", "quota exceeded"}

\* ----------------------------------------------------------------- state
VARIABLES
  user_profiles_db,  \* main.py:34, dict user id -> UserProfile
  reqs,              \* the requests the event loop currently holds
  everSet,           \* history: ids for which set_user_profile has run
  lastSet,           \* history: id -> body of the set_user_profile that ran last
  response_text,     \* SpecParse: the completion being parsed
  lines,             \* SpecParse: main.py:125
  idx,               \* SpecParse: position of the for loop in lines
  parsed_options,    \* SpecParse: main.py:126
  ppc                \* SpecParse: position of the parser

serverVars == <<user_profiles_db, reqs, everSet, lastSet>>
parseVars == <<response_text, lines, idx, parsed_options, ppc>>
vars == <<user_profiles_db, reqs, everSet, lastSet,
          response_text, lines, idx, parsed_options, ppc>>

Slots == 1..MaxInFlight

NoOutcome == [raised |-> FALSE, text |-> <<>>, error |-> ""]

\* A free slot of the event loop.
Idle ==
  [kind |-> "none", pc |-> "idle", body |-> <<>>, arg |-> <<>>, status |-> 0,
   resp |-> <<>>, chain_input |-> <<>>, outcome |-> NoOutcome, calls |-> 0]

NotFoundDetail == "User profile not found. Please set it first."

\* FastAPI's answer to a body that fails schema validation.
Rejected(kind, body) ==
  [Idle EXCEPT !.kind = kind, !.pc = "done", !.body = body, !.status = 422]

\* The handler is scheduled with its validated argument.
Scheduled(kind, body, arg) ==
  [Idle EXCEPT !.kind = kind, !.pc = "ready", !.body = body, !.arg = arg]

\* json.dumps(user_profile.model_dump(), indent=2): the fields in declaration
\* order, each as a key/value pair.
ModelDumpJson(p) ==
  << <<"id", p.id>>,
     <<"personality",
       << <<"openness", p.personality.openness>>,
          <<"conscientiousness", p.personality.conscientiousness>>,
          <<"extraversion", p.personality.extraversion>>,
          <<"agreeableness", p.personality.agreeableness>>,
          <<"neuroticism", p.personality.neuroticism>> >> >>,
     <<"communication_style",
       << <<"formality_preference", p.communication_style.formality_preference>>,
          <<"conciseness_preference", p.communication_style.conciseness_preference>>,
          <<"humor_level", p.communication_style.humor_level>>,
          <<"empathy_level", p.communication_style.empathy_level>>,
          <<"flirty_level", p.communication_style.flirty_level>> >> >>,
     <<"values_boundaries", p.values_boundaries>> >>

\* The variables handed to chain.ainvoke (main.py:109-121).
ChainInput(user_profile, request) ==
  [user_profile_json |-> ModelDumpJson(user_profile),
   incoming_message |-> request.incoming_message,
   conversation_context_type |-> request.conversation_context_type,
   desired_tones_list |-> JoinComma(request.desired_tones)]

ServerInit ==
  /\ user_profiles_db = EmptyDict
  /\ reqs = [r \in Slots |-> Idle]
  /\ everSet = {}
  /\ lastSet = EmptyDict

ParseIdle ==
  /\ response_text = <<>>
  /\ lines = <<>>
  /\ idx = 0
  /\ parsed_options = EmptyDict
  /\ ppc = "off"

Init == ServerInit /\ ParseIdle

\* ----------------------------------------------------- request admission
\* POST /user_profile: the body is validated into a UserProfile.
ReceiveSet(r, body) ==
  /\ reqs[r].pc = "idle"
  /\ reqs' = [reqs EXCEPT ![r] =
       IF ValidUserProfile(body)
       THEN Scheduled("set", body, ParseUserProfile(body))
       ELSE Rejected("set", body)]
  /\ UNCHANGED <<user_profiles_db, everSet, lastSet, parseVars>>

\* GET /user_profile/{user_id}
ReceiveGet(r, user_id) ==
  /\ reqs[r].pc = "idle"
  /\ reqs' = [reqs EXCEPT ![r] = Scheduled("get", user_id, user_id)]
  /\ UNCHANGED <<user_profiles_db, everSet, lastSet, parseVars>>

\* POST /generate_responses: the body is validated into a GenerateResponseRequest.
ReceiveGenerate(r, body) ==
  /\ reqs[r].pc = "idle"
  /\ reqs' = [reqs EXCEPT ![r] =
       IF ValidGenerateResponseRequest(body)
       THEN Scheduled("generate", body, ParseGenerateResponseRequest(body))
       ELSE Rejected("generate", body)]
  /\ UNCHANGED <<user_profiles_db, everSet, lastSet, parseVars>>

\* -------------------------------------------------------------- handlers
\* Variant: a re-submission without boundaries keeps the stored ones.
set_user_profile_Merge(r) ==
  /\ reqs[r].kind = "set" /\ reqs[r].pc = "ready"
  /\ LET profile == reqs[r].arg
         merged  ==
           IF profile.id \in DOMAIN user_profiles_db /\ profile.values_boundaries = <<>>
           THEN [profile EXCEPT !.values_boundaries =
                                  user_profiles_db[profile.id].values_boundaries]
           ELSE profile
     IN  /\ user_profiles_db' = DictSet(user_profiles_db, profile.id, merged)
         /\ reqs' = [reqs EXCEPT ![r].pc = "done", ![r].status = 200,
                        ![r].resp = [message |-> "User profile updated successfully",
                                     user_id |-> profile.id]]
         /\ everSet' = everSet \cup {profile.id}
         /\ lastSet' = DictSet(lastSet, profile.id, reqs[r].body)
  /\ UNCHANGED parseVars

\* Variant: dict.setdefault, the first write of an id wins.
set_user_profile_SetDefault(r) ==
  /\ reqs[r].kind = "set" /\ reqs[r].pc = "ready"
  /\ LET profile == reqs[r].arg
     IN  /\ user_profiles_db' =
              IF profile.id \in DOMAIN user_profiles_db THEN user_profiles_db
              ELSE DictSet(user_profiles_db, profile.id, profile)
         /\ reqs' = [reqs EXCEPT ![r].pc = "done", ![r].status = 200,
                        ![r].resp = [message |-> "User profile updated successfully",
                                     user_id |-> profile.id]]
         /\ everSet' = everSet \cup {profile.id}
         /\ lastSet' = DictSet(lastSet, profile.id, reqs[r].body)
  /\ UNCHANGED parseVars

\* main.py:39-45.  The coroutine has no await: it runs in one step.
set_user_profile(r) ==
  /\ reqs[r].kind = "set" /\ reqs[r].pc = "ready"
  /\ LET profile == reqs[r].arg
     IN  /\ user_profiles_db' = DictSet(user_profiles_db, profile.id, profile)
         /\ reqs' = [reqs EXCEPT ![r].pc = "done", ![r].status = 200,
                        ![r].resp = [message |-> "User profile updated successfully",
                                     user_id |-> profile.id]]
         /\ everSet' = everSet \cup {profile.id}
         /\ lastSet' = DictSet(lastSet, profile.id, reqs[r].body)
  /\ UNCHANGED parseVars

\* Variant: the truth test looks at the boundaries list, so a stored profile
\* with no boundaries counts as missing.
get_user_profile_Falsy(r) ==
  /\ reqs[r].kind = "get" /\ reqs[r].pc = "ready"
  /\ LET user_id == reqs[r].arg
     IN  reqs' = [reqs EXCEPT ![r] =
           IF \/ user_id \notin DOMAIN user_profiles_db
              \/ user_profiles_db[user_id].values_boundaries = <<>>
           THEN [@ EXCEPT !.pc = "done", !.status = 404,
                          !.resp = [detail |-> NotFoundDetail]]
           ELSE [@ EXCEPT !.pc = "done", !.status = 200,
                          !.resp = user_profiles_db[user_id]]]
  /\ UNCHANGED <<user_profiles_db, everSet, lastSet, parseVars>>

\* main.py:48-55.  A UserProfile instance is always truthy, so `not profile`
\* holds exactly when dict.get returned None.
get_user_profile(r) ==
  /\ reqs[r].kind = "get" /\ reqs[r].pc = "ready"
  /\ LET user_id == reqs[r].arg
     IN  reqs' = [reqs EXCEPT ![r] =
           IF user_id \notin DOMAIN user_profiles_db
           THEN [@ EXCEPT !.pc = "done", !.status = 404,
                          !.resp = [detail |-> NotFoundDetail]]
           ELSE [@ EXCEPT !.pc = "done", !.status = 200,
                          !.resp = user_profiles_db[user_id]]]
  /\ UNCHANGED <<user_profiles_db, everSet, lastSet, parseVars>>

\* Variant: the provider is called before the lookup result is tested.
generate_lookup_CallFirst(r) ==
  /\ reqs[r].kind = "generate" /\ reqs[r].pc = "ready"
  /\ LET request == reqs[r].arg
     IN  reqs' = [reqs EXCEPT ![r] =
           IF request.user_id \notin DOMAIN user_profiles_db
           THEN [@ EXCEPT !.pc = "done", !.status = 404,
                          !.resp = [detail |-> NotFoundDetail],
                          !.calls = @ + 1]
           ELSE [@ EXCEPT !.pc = "awaiting",
                          !.chain_input =
                             ChainInput(user_profiles_db[request.user_id], request),
                          !.calls = @ + 1]]
  /\ UNCHANGED <<user_profiles_db, everSet, lastSet, parseVars>>

\* main.py:63-116: lookup, prompt data, and the provider call is issued; the
\* coroutine then waits at the await.
generate_lookup(r) ==
  /\ reqs[r].kind = "generate" /\ reqs[r].pc = "ready"
  /\ LET request == reqs[r].arg
     IN  reqs' = [reqs EXCEPT ![r] =
           IF request.user_id \notin DOMAIN user_profiles_db
           THEN [@ EXCEPT !.pc = "done", !.status = 404,
                          !.resp = [detail |-> NotFoundDetail]]
           ELSE [@ EXCEPT !.pc = "awaiting",
                          !.chain_input =
                             ChainInput(user_profiles_db[request.user_id], request),
                          !.calls = @ + 1]]
  /\ UNCHANGED <<user_profiles_db, everSet, lastSet, parseVars>>

\* The provider answers the pending call with a completion text.
ProviderReturns(r, text) ==
  /\ reqs[r].kind = "generate" /\ reqs[r].pc = "awaiting"
  /\ reqs' = [reqs EXCEPT ![r].pc = "resumed",
                          ![r].outcome = [raised |-> FALSE, text |-> text, error |-> ""]]
  /\ UNCHANGED <<user_profiles_db, everSet, lastSet, parseVars>>

\* Variant: a failed call is issued once more before the error is surfaced.
ProviderRaises_Retry(r, error) ==
  /\ reqs[r].kind = "generate" /\ reqs[r].pc = "awaiting"
  /\ reqs' = [reqs EXCEPT ![r] =
       IF @.calls < 2
       THEN [@ EXCEPT !.calls = @ + 1]
       ELSE [@ EXCEPT !.pc = "resumed",
                      !.outcome = [raised |-> TRUE, text |-> <<>>, error |-> error]]]
  /\ UNCHANGED <<user_profiles_db, everSet, lastSet, parseVars>>

\* The pending provider call raises.
ProviderRaises(r, error) ==
  /\ reqs[r].kind = "generate" /\ reqs[r].pc = "awaiting"
  /\ reqs' = [reqs EXCEPT ![r].pc = "resumed",
                          ![r].outcome = [raised |-> TRUE, text |-> <<>>, error |-> error]]
  /\ UNCHANGED <<user_profiles_db, everSet, lastSet, parseVars>>

\* Variant: the except clause answers with a fixed detail.
generate_resume_Generic(r) ==
  /\ reqs[r].kind = "generate" /\ reqs[r].pc = "resumed"
  /\ LET outcome == reqs[r].outcome
     IN  reqs' = [reqs EXCEPT ![r] =
           IF outcome.raised \/ ParseRaises(outcome.text)
           THEN [@ EXCEPT !.pc = "done", !.status = 500,
                          !.resp = [detail |-> "Error generating responses"]]
           ELSE [@ EXCEPT !.pc = "done", !.status = 200,
                          !.resp = [options |-> ParseCompletion(outcome.text)]]]
  /\ UNCHANGED <<user_profiles_db, everSet, lastSet, parseVars>>

\* Variant: the prompt data is built from the store again after the await.
generate_resume_Rerender(r) ==
  /\ reqs[r].kind = "generate" /\ reqs[r].pc = "resumed"
  /\ LET outcome == reqs[r].outcome
         request == reqs[r].arg
         again   == ChainInput(user_profiles_db[request.user_id], request)
     IN  reqs' = [reqs EXCEPT ![r] =
           IF outcome.raised
           THEN [@ EXCEPT !.pc = "done", !.status = 500, !.chain_input = again,
                          !.resp = [detail |-> "Error generating responses: " \o outcome.error]]
           ELSE [@ EXCEPT !.pc = "done", !.status = 200, !.chain_input = again,
                          !.resp = [options |-> ParseCompletion(outcome.text)]]]
  /\ UNCHANGED <<user_profiles_db, everSet, lastSet, parseVars>>

\* main.py:116-137: the coroutine resumes after the await; it parses the text
\* and returns, or lands in the except clause.
generate_resume(r) ==
  /\ reqs[r].kind = "generate" /\ reqs[r].pc = "resumed"
  /\ LET outcome == reqs[r].outcome
     IN  reqs' = [reqs EXCEPT ![r] =
           IF outcome.raised
           THEN [@ EXCEPT !.pc = "done", !.status = 500,
                          !.resp = [detail |-> "Error generating responses: " \o outcome.error]]
           ELSE IF ParseRaises(outcome.text)
           THEN [@ EXCEPT !.pc = "done", !.status = 500,
                          !.resp = [detail |-> "Error generating responses: "
                                               \o "not enough values to unpack"]]
           ELSE [@ EXCEPT !.pc = "done", !.status = 200,
                          !.resp = [options |-> ParseCompletion(outcome.text)]]]
  /\ UNCHANGED <<user_profiles_db, everSet, lastSet, parseVars>>

\* The response has been sent; the slot is free again.
Respond(r) ==
  /\ reqs[r].pc = "done"
  /\ reqs' = [reqs EXCEPT ![r] = Idle]
  /\ UNCHANGED <<user_profiles_db, everSet, lastSet, parseVars>>

Next ==
  \/ \E r \in Slots, body \in ProfileBodies : ReceiveSet(r, body)
  \/ \E r \in Slots, user_id \in UserIds : ReceiveGet(r, user_id)
  \/ \E r \in Slots, body \in GenerateBodies : ReceiveGenerate(r, body)
  \/ \E r \in Slots : set_user_profile(r)
  \/ \E r \in Slots : get_user_profile(r)
  \/ \E r \in Slots : generate_lookup(r)
  \/ \E r \in Slots, text \in Completions : ProviderReturns(r, text)
  \/ \E r \in Slots, error \in ProviderErrors : ProviderRaises(r, error)
  \/ \E r \in Slots : generate_resume(r)
  \/ \E r \in Slots : Respond(r)

Spec == Init /\ [][Next]_vars

\* ------------------------------------------------- the parser, line by line
\* Characters of a completion text.
Chars == {"a", "b", ":", "|", " ", "\n"}

InitParse ==
  /\ ServerInit
  /\ \E n \in 0..MaxLen : response_text \in [1..n -> Chars]
  /\ lines = <<>>
  /\ idx = 0
  /\ parsed_options = EmptyDict
  /\ ppc = "start"

\* main.py:125-126
ParseStart ==
  /\ ppc = "start"
  /\ lines' = SplitLines(response_text)
  /\ parsed_options' = EmptyDict
  /\ idx' = 1
  /\ ppc' = "loop"
  /\ UNCHANGED <<response_text, serverVars>>

\* main.py:127-132, one iteration of the for loop
ParseStep ==
  /\ ppc = "loop" /\ idx <= Len(lines)
  /\ IF UnpackRaises(lines[idx])
     THEN ppc' = "raised" /\ UNCHANGED <<parsed_options, idx>>
     ELSE /\ parsed_options' = ParseLine(parsed_options, lines[idx])
          /\ idx' = idx + 1
          /\ ppc' = ppc
  /\ UNCHANGED <<response_text, lines, serverVars>>

\* main.py:134
ParseReturn ==
  /\ ppc = "loop" /\ idx > Len(lines)
  /\ ppc' = "done"
  /\ UNCHANGED <<response_text, lines, idx, parsed_options, serverVars>>

NextParse == ParseStart \/ ParseStep \/ ParseReturn

SpecParse == InitParse /\ [][NextParse]_vars

\* ================================================================ properties

\* What a stored or returned profile must be for a submitted JSON body, field
\* by field: the submitted value where one was given, the schema default
\* where it was omitted.
ProfileMatchesBody(p, body) ==
  /\ DOMAIN p = {"id", "personality", "communication_style", "values_boundaries"}
  /\ p.id = body.id
  /\ DOMAIN p.personality = PersonalityFields
  /\ \A f \in PersonalityFields :
       p.personality[f] = IF f \in DOMAIN body.personality THEN body.personality[f] ELSE "medium"
  /\ DOMAIN p.communication_style = StyleFields
  /\ \A f \in StyleFields :
       p.communication_style[f] =
         IF f \in DOMAIN body.communication_style THEN body.communication_style[f]
         ELSE StyleDefaults[f]
  /\ p.values_boundaries =
       IF "values_boundaries" \in DOMAIN body THEN body.values_boundaries ELSE <<>>

\* Request r's handler of the given kind runs from ready to done in this step.
HandlerRan(r, kind) ==
  /\ reqs[r].kind = kind /\ reqs[r].pc = "ready"
  /\ reqs'[r].kind = kind /\ reqs'[r].pc = "done"

\* C1: get_user_profile(id) for an id that has been set returns a profile equal
\* in every field to the body most recently set for that id; nothing of an
\* earlier submission is merged in, and values_boundaries is the empty list
\* when the newest submission omitted it.
C1_GetReturnsLastSet ==
  [][\A r \in Slots :
       (HandlerRan(r, "get") /\ reqs[r].arg \in everSet)
         => ProfileMatchesBody(reqs'[r].resp, lastSet[reqs[r].arg])]_vars

\* A get for u1 has answered with an empty values_boundaries after a
\* submission that omitted it replaced one that carried boundaries (the
\* earlier set request is still waiting to be answered).
C1_Witness ==
  \E r, q \in Slots :
    /\ reqs[r].kind = "get" /\ reqs[r].pc = "done" /\ reqs[r].status = 200
    /\ reqs[r].resp.values_boundaries = <<>>
    /\ "values_boundaries" \notin DOMAIN lastSet[reqs[r].arg]
    /\ reqs[q].kind = "set" /\ reqs[q].pc = "done" /\ reqs[q].status = 200
    /\ reqs[q].arg.id = reqs[r].arg
    /\ reqs[q].arg.values_boundaries # <<>>

\* C2: get_user_profile(id) answers 404 with the fixed detail exactly when no
\* set_user_profile for that id has run before, whatever other ids were set;
\* once the id has been set it never answers 404.
C2_NotFoundIffNeverSet ==
  [][\A r \in Slots :
       HandlerRan(r, "get") =>
         IF reqs[r].arg \in everSet
         THEN reqs'[r].status = 200
         ELSE /\ reqs'[r].status = 404
              /\ reqs'[r].resp = [detail |-> "User profile not found. Please set it first."]]_vars

\* A get for an id never set has answered 404 while another id is stored, and
\* a get for a stored id has answered 200.
C2_Witness ==
  \E r, q \in Slots :
    /\ reqs[r].kind = "get" /\ reqs[r].pc = "done" /\ reqs[r].status = 404
    /\ reqs[r].arg \notin everSet /\ everSet # {}
    /\ reqs[q].kind = "get" /\ reqs[q].pc = "done" /\ reqs[q].status = 200
    /\ reqs[q].arg \in everSet

\* C3: generate_responses whose user_id is not in the store at the lookup
\* answers 404, has made no provider call, and leaves the store unchanged.
C3_UnknownUserNoProviderCall ==
  [][\A r \in Slots :
       ( /\ reqs[r].kind = "generate" /\ reqs[r].pc = "ready"
         /\ reqs'[r].pc # "ready"
         /\ reqs[r].arg.user_id \notin DOMAIN user_profiles_db )
       => /\ reqs'[r].pc = "done"
          /\ reqs'[r].status = 404
          /\ reqs'[r].resp = [detail |-> "User profile not found. Please set it first."]
          /\ reqs'[r].calls = 0
          /\ user_profiles_db' = user_profiles_db]_vars

\* A generate request for an unknown user has ended with 404.
C3_Witness ==
  \E r \in Slots :
    /\ reqs[r].kind = "generate" /\ reqs[r].pc = "done" /\ reqs[r].status = 404
    /\ reqs[r].arg.user_id \notin DOMAIN user_profiles_db
    /\ reqs[r].calls = 0

\* C4: when the provider call raises, the endpoint answers 500 with detail
\* "Error generating responses: " followed by the error text, and the step
\* leaves the profile store as it was.
C4_ProviderErrorIs500 ==
  [][\A r \in Slots :
       ( /\ reqs[r].kind = "generate" /\ reqs[r].pc = "resumed"
         /\ reqs[r].outcome.raised
         /\ reqs'[r].pc # "resumed" )
       => /\ reqs'[r].pc = "done"
          /\ reqs'[r].status = 500
          /\ \E e \in ProviderErrors :
               /\ e = reqs[r].outcome.error
               /\ reqs'[r].resp = [detail |-> "Error generating responses: " \o e]
          /\ user_profiles_db' = user_profiles_db]_vars

\* A generate request whose provider call raised has ended with 500 while the
\* store still holds the profile it looked up.
C4_Witness ==
  \E r \in Slots :
    /\ reqs[r].kind = "generate" /\ reqs[r].pc = "done" /\ reqs[r].status = 500
    /\ reqs[r].outcome.raised
    /\ reqs[r].arg.user_id \in DOMAIN user_profiles_db

\* C6 (as claimed): a request that reaches the handler of generate_responses
\* carries a non-empty desired_tones list.
C6_DesiredTonesNonEmpty ==
  \A r \in Slots :
    (reqs[r].kind = "generate" /\ reqs[r].pc \in {"ready", "awaiting", "resumed"})
      => Len(reqs[r].arg.desired_tones) > 0

\* C7: under any interleaving of set_user_profile requests, the entry of an id
\* is, as a whole, the profile of the write that ran last (never a mixture of
\* two submissions), and a write leaves the entries of other ids untouched.
C7_StoreIsLastWrite ==
  \A id \in DOMAIN user_profiles_db :
    /\ id \in DOMAIN lastSet
    /\ ProfileMatchesBody(user_profiles_db[id], lastSet[id])

C7_OthersUntouched ==
  \A r \in Slots :
    HandlerRan(r, "set") =>
      /\ DOMAIN user_profiles_db' = DOMAIN user_profiles_db \cup {reqs[r].arg.id}
      /\ \A id \in DOMAIN user_profiles_db \ {reqs[r].arg.id} :
           user_profiles_db'[id] = user_profiles_db[id]

C7_LastWriteWins == [](C7_StoreIsLastWrite) /\ [][C7_OthersUntouched]_vars

\* Two set requests for the same id with different bodies were in flight
\* together and both have written; another id is stored as well.
C7_Witness ==
  \E r, q \in Slots :
    /\ r # q
    /\ reqs[r].kind = "set" /\ reqs[r].pc = "done" /\ reqs[r].status = 200
    /\ reqs[q].kind = "set" /\ reqs[q].pc = "done" /\ reqs[q].status = 200
    /\ reqs[r].arg.id = reqs[q].arg.id
    /\ reqs[r].arg # reqs[q].arg
    /\ user_profiles_db[reqs[r].arg.id] = reqs[r].arg
    /\ DOMAIN user_profiles_db = UserIds

\* C8: a generate request whose user_id resolves makes exactly one provider
\* call, issued after the lookup and before the parse; a request that has not
\* looked up yet or that ended with 404 or 422 has made none; a failed call
\* ends the request with 500 and is not retried.
C8_ExactlyOneProviderCall ==
  \A r \in Slots :
    /\ reqs[r].calls <= 1
    /\ reqs[r].kind # "generate" => reqs[r].calls = 0
    /\ reqs[r].kind = "generate" =>
         /\ reqs[r].pc = "ready" => reqs[r].calls = 0
         /\ reqs[r].pc \in {"awaiting", "resumed"} => reqs[r].calls = 1
         /\ reqs[r].pc = "done" =>
              reqs[r].calls = (IF reqs[r].status \in {200, 500} THEN 1 ELSE 0)
         /\ reqs[r].outcome.raised => reqs[r].pc \in {"resumed", "done"}
         /\ (reqs[r].outcome.raised /\ reqs[r].pc = "done") => reqs[r].status = 500

\* A generate request has ended with 500 after its single call failed.
C8_Witness ==
  \E r \in Slots :
    /\ reqs[r].kind = "generate" /\ reqs[r].pc = "done" /\ reqs[r].status = 500
    /\ reqs[r].calls = 1

\* C9: the prompt data of a generate request carries the profile stored at its
\* lookup; a set_user_profile that runs while the provider call is pending
\* does not change it, the answer is the parse of the completion alone, and no
\* step of the generate request changes the store.
C9_InFlightUsesLookupProfile ==
  [][\A r \in Slots :
       /\ ( /\ reqs[r].kind = "generate" /\ reqs[r].pc = "ready"
            /\ reqs'[r].pc = "awaiting" )
          => reqs'[r].chain_input.user_profile_json
               = ModelDumpJson(user_profiles_db[reqs[r].arg.user_id])
       /\ ( /\ reqs[r].kind = "generate" /\ reqs[r].pc \in {"awaiting", "resumed"}
            /\ reqs'[r].pc # "idle" )
          => reqs'[r].chain_input = reqs[r].chain_input
       /\ ( /\ reqs[r].kind = "generate" /\ reqs[r].pc = "resumed"
            /\ ~reqs[r].outcome.raised /\ reqs'[r].pc = "done" )
          => reqs'[r].resp = [options |-> ParseCompletion(reqs[r].outcome.text)]
       /\ ( /\ reqs[r].kind = "generate" /\ reqs[r].pc # reqs'[r].pc
            /\ reqs'[r].pc # "idle" )
          => user_profiles_db' = user_profiles_db]_vars

\* A generate request has been answered from a prompt that differs from the
\* profile now stored for its user: a set for that id ran while the call was
\* pending.
C9_Witness ==
  \E r \in Slots :
    /\ reqs[r].kind = "generate" /\ reqs[r].pc = "done" /\ reqs[r].status = 200
    /\ reqs[r].chain_input.user_profile_json
         # ModelDumpJson(user_profiles_db[reqs[r].arg.user_id])

\* ------------------------------------------------------ parser properties
HasColon(line) == \E i \in 1..Len(line) : line[i] = ":"

\* Position of the first colon of a line that has one.
FirstColon(line) ==
  CHOOSE i \in 1..Len(line) : line[i] = ":" /\ \A j \in 1..(i - 1) : line[j] # ":"

\* s is non-empty and neither starts nor ends with whitespace.
Trimmed(s) == s # <<>> /\ s[1] \notin Whitespace /\ s[Len(s)] \notin Whitespace

\* The trimmed text before the first colon.
LabelOf(line) == Strip(SubSeq(line, 1, FirstColon(line) - 1))

\* The text after the first colon cut at every '|', each piece trimmed, the
\* empty pieces dropped.
OptionsOf(line) ==
  LET pieces  == Split(SubSeq(line, FirstColon(line) + 1, Len(line)), "|")
      trimmed == [i \in 1..Len(pieces) |-> Strip(pieces[i])]
  IN  SelectSeq(trimmed, LAMBDA o : o # <<>>)

\* Lines that contribute an entry.
Contributing == {i \in 1..Len(lines) : HasColon(lines[i]) /\ OptionsOf(lines[i]) # <<>>}

\* C5: the parser never raises, and its result is built from the lines that
\* contain a colon and have a surviving option: every key is the trimmed text
\* before the first colon of such a line with that line's trimmed, non-empty
\* options, every such line's label is a key, a line without a colon or
\* without surviving options adds nothing; hence every list is non-empty and
\* every option is non-empty without leading or trailing whitespace.
C5_ParserLineByLine ==
  /\ ppc # "raised"
  /\ ppc = "done" =>
       /\ \A k \in DOMAIN parsed_options :
            /\ parsed_options[k] # <<>>
            /\ \A j \in 1..Len(parsed_options[k]) : Trimmed(parsed_options[k][j])
            /\ \E i \in Contributing :
                 LabelOf(lines[i]) = k /\ OptionsOf(lines[i]) = parsed_options[k]
       /\ \A i \in Contributing : LabelOf(lines[i]) \in DOMAIN parsed_options
       /\ Contributing = {} => parsed_options = EmptyDict

\* The parse of a text has finished that has a line without a colon and a
\* line whose options lost an empty piece and surrounding whitespace.
C5_Witness ==
  /\ ppc = "done"
  /\ \E i \in 1..Len(lines) : ~HasColon(lines[i]) /\ lines[i] # <<>>
  /\ \E i \in Contributing :
       LET pieces == Split(SubSeq(lines[i], FirstColon(lines[i]) + 1, Len(lines[i])), "|")
       IN  /\ Len(OptionsOf(lines[i])) < Len(pieces)
           /\ \E j \in 1..Len(pieces) : pieces[j] # Strip(pieces[j]) /\ Strip(pieces[j]) # <<>>

\* C10: when several lines yield the same label, the result holds for it the
\* options of the last of those lines that has a surviving option; earlier
\* options are discarded, not appended, and a later line of that label with
\* no surviving option leaves the entry in place.
C10_LastLineWins ==
  ppc = "done" =>
    \A k \in DOMAIN parsed_options :
      LET same == {i \in Contributing : LabelOf(lines[i]) = k}
          last == CHOOSE i \in same : \A j \in same : j <= i
      IN  same # {} /\ parsed_options[k] = OptionsOf(lines[last])

\* The parse has finished of a text in which two lines yield the same label
\* with different surviving options.
C10_Witness ==
  /\ ppc = "done"
  /\ \E i, j \in Contributing :
       /\ i < j
       /\ LabelOf(lines[i]) = LabelOf(lines[j])
       /\ OptionsOf(lines[i]) # OptionsOf(lines[j])

====
